---- MODULE Spec2Model ----
(***************************************************************************)
(* Model of the duplicate resolver of dedup.py: main() and run().          *)
(* Text is a sequence of one-character strings, a PurePath is a record     *)
(* [root, parts], the filesystem is the set of existing regular files      *)
(* plus a fixed set of directories.                                        *)
(***************************************************************************)
EXTENDS Integers, Sequences, FiniteSets, TLC

\* ------------------------------------------------------------------ bounds

\* Longest input (number of lines) of the general specification.
MaxLines == 3
\* Longest input of the two-hash specification SpecGroups.
MaxGroupLines == 4

\* ------------------------------------------------------------------ text

WordChars == {"a", "b", "d", "e", "h", "k", "n", "t", "x", "I", "J", "S", "m", "r"}

\* Code point of a character (str comparison is by code point).
Ord(c) ==
  CASE c = "\n" -> 10 [] c = " " -> 32 [] c = "(" -> 40 [] c = ")" -> 41
    [] c = "." -> 46 [] c = "/" -> 47
    [] c = "I" -> 73 [] c = "J" -> 74 [] c = "S" -> 83
    [] c = "a" -> 97 [] c = "b" -> 98 [] c = "d" -> 100 [] c = "e" -> 101
    [] c = "h" -> 104 [] c = "k" -> 107 [] c = "m" -> 109 [] c = "n" -> 110
    [] c = "r" -> 114 [] c = "t" -> 116 [] c = "x" -> 120

Codes(s) == [i \in 1..Len(s) |-> Ord(s[i])]

\* a < b for sequences of integers, lexicographically (Python's str and
\* bool comparison, on the keys of list.sort).
LexLess(a, b) ==
  \E k \in 1..(Len(b)) :
     /\ \A i \in 1..(k-1) : i <= Len(a) /\ a[i] = b[i]
     /\ k - 1 <= Len(a)
     /\ (k > Len(a) \/ a[k] < b[k])

\* ------------------------------------------------------------------ regex
\* r"(?P<hash>\w+) \((?P<path>.*)\)$" under re.match.

\* Length of the longest prefix of word characters (\w+ is greedy and the
\* next pattern character, a space, is no word character).
WordPrefix(line) ==
  CHOOSE k \in 0..Len(line) :
     /\ \A i \in 1..k : line[i] \in WordChars
     /\ (k < Len(line) => line[k+1] \notin WordChars)

\* Without the $ anchor: the closing parenthesis is the last one of the line.
CloseParenUnanchored(line) ==
  LET S == {i \in 1..Len(line) : line[i] = ")"}
  IN IF S = {} THEN 0 ELSE CHOOSE i \in S : \A j \in S : j <= i

\* Where "\)$" puts the closing parenthesis: the end of the string, or just
\* before a newline that ends the string; 0 when there is none.
CloseParen(line) ==
  LET n == Len(line)
      e == IF n > 0 /\ line[n] = "\n" THEN n - 1 ELSE n
  IN IF e >= 1 /\ line[e] = ")" THEN e ELSE 0

re_match(line) ==
  LET h == WordPrefix(line)
      e == CloseParen(line)
  IN /\ h >= 1
     /\ h + 2 <= Len(line)
     /\ line[h+1] = " "
     /\ line[h+2] = "("
     /\ e >= h + 3
     /\ \A i \in (h+3)..(e-1) : line[i] # "\n"

group_hash(line) == SubSeq(line, 1, WordPrefix(line))

group_path(line) == SubSeq(line, WordPrefix(line) + 3, CloseParen(line) - 1)

\* ------------------------------------------------------------------ pathlib

\* The pieces of s between slashes.
RECURSIVE Split(_)
Split(s) ==
  IF \A i \in 1..Len(s) : s[i] # "/" THEN <<s>>
  ELSE LET k == CHOOSE i \in 1..Len(s) :
                   s[i] = "/" /\ \A j \in 1..(i-1) : s[j] # "/"
       IN <<SubSeq(s, 1, k-1)>> \o Split(SubSeq(s, k+1, Len(s)))

IsComponent(c) == c # <<>> /\ c # <<".">>

\* The root of a POSIX path: exactly two leading slashes are kept, any other
\* number of them is one.
Root(s) ==
  IF Len(s) >= 2 /\ s[1] = "/" /\ s[2] = "/" /\ (Len(s) = 2 \/ s[3] # "/")
  THEN <<"/", "/">>
  ELSE IF Len(s) >= 1 /\ s[1] = "/" THEN <<"/">> ELSE <<>>

\* PurePath(s): empty and "." components are dropped, ".." is kept.
PurePath(s) == [root |-> Root(s), parts |-> SelectSeq(Split(s), IsComponent)]

\* p.name: the last component, '' when there is none.
Name(p) == IF p.parts = <<>> THEN <<>> ELSE p.parts[Len(p.parts)]

\* len(p.parents) > 0; p.parents[0] raises IndexError otherwise.
HasParent(p) == p.parts # <<>>

\* p.parents[0]
Parent(p) == [root |-> p.root, parts |-> SubSeq(p.parts, 1, Len(p.parts) - 1)]

\* q.match('Sent'): the last component of q is 'Sent'.
MatchSent(q) == q.parts # <<>> /\ q.parts[Len(q.parts)] = <<"S", "e", "n", "t">>

\* a / b
TrueDiv(a, b) ==
  IF b.root # <<>> THEN b ELSE [root |-> a.root, parts |-> a.parts \o b.parts]

RECURSIVE Join(_)
Join(parts) ==
  IF parts = <<>> THEN <<>>
  ELSE IF Len(parts) = 1 THEN parts[1]
  ELSE parts[1] \o <<"/">> \o Join(Tail(parts))

\* p.as_posix() and str(p)
as_posix(p) ==
  IF p.parts = <<>> /\ p.root = <<>> THEN <<".">> ELSE p.root \o Join(p.parts)

\* ------------------------------------------------------------------ sorting

\* A key on the whole path instead of the base name.
PathKey(p) == Codes(as_posix(p))

\* key=lambda p: p.name
NameKey(p) == Codes(Name(p))

\* p.parents[0].match('Sent')
InSent(p) == MatchSent(Parent(p))

\* key=lambda p: p.parents[0].match('Sent'), a bool: False < True.
SentKey(p) == <<IF InSent(p) THEN 1 ELSE 0>>

Key(kind, p) == IF kind = "name" THEN NameKey(p) ELSE SentKey(p)

\* p goes into the sorted list s after every element whose key is not
\* greater than its own.
RECURSIVE Insert(_, _, _)
Insert(s, p, kind) ==
  IF s = <<>> THEN <<p>>
  ELSE IF LexLess(Key(kind, p), Key(kind, s[1])) THEN <<p>> \o s
  ELSE <<s[1]>> \o Insert(Tail(s), p, kind)

\* list.sort(key=...): ascending by key and stable (an insertion sort, as
\* list.sort is on a short list).
RECURSIVE StableSort(_, _)
StableSort(items, kind) ==
  IF items = <<>> THEN <<>>
  ELSE Insert(StableSort(SubSeq(items, 1, Len(items) - 1), kind),
              items[Len(items)], kind)

SortByName(paths) == StableSort(paths, "name")

SortBySent(paths) == StableSort(paths, "sent")

\* The second sort raises IndexError when some path has no parent.
SentKeyRaises(paths) == \E i \in 1..Len(paths) : ~HasParent(paths[i])

keep(paths) == paths[1]

drop(paths) == Tail(paths)

\* A warning whenever the keeper is in Sent.
WarnKeepOnly(paths) == InSent(keep(paths))

warn(paths) ==
  /\ InSent(keep(paths))
  /\ \E i \in 1..Len(drop(paths)) : ~InSent(drop(paths)[i])

\* ------------------------------------------------------------------ filesystem

Str(p) == as_posix(p)

\* os.path.isfile
isfile(fsys, p) == p \in fsys

\* The directories of the model's filesystem; none is created or removed.
Dirs ==
  { PurePath(<<".">>), PurePath(<<"r">>), PurePath(<<"m">>),
    PurePath(<<"r", "/", "I">>), PurePath(<<"r", "/", "J">>),
    PurePath(<<"r", "/", "S", "e", "n", "t">>) }

\* os.path.isdir
isdir(p) == p \in Dirs

ParentDir(p) == IF HasParent(p) THEN Parent(p) ELSE p

\* A rename that leaves the source in place (a copy).
RenameKeepsSource(fsys, src, dst) ==
  IF src \notin fsys THEN [exc |-> "FileNotFoundError", fs |-> fsys]
  ELSE [exc |-> "", fs |-> fsys \cup {dst}]

\* os.rename(src, dst) of a regular file: the destination is replaced.
rename(fsys, src, dst) ==
  IF src \notin fsys THEN [exc |-> "FileNotFoundError", fs |-> fsys]
  ELSE IF ~isdir(ParentDir(dst)) THEN [exc |-> "FileNotFoundError", fs |-> fsys]
  ELSE IF isdir(dst) THEN [exc |-> "IsADirectoryError", fs |-> fsys]
  ELSE [exc |-> "", fs |-> (fsys \ {src}) \cup {dst}]

\* source_dir / drop_path
FullPath(src_dir, drop_path) == TrueDiv(PurePath(src_dir), drop_path)

\* move_dir / drop_path.name
MovePath(mv_dir, drop_path) == TrueDiv(mv_dir, PurePath(Name(drop_path)))

\* ------------------------------------------------------------------ inputs

\* One line of the list, as file.readlines() gives it.
Line(hash, path) == hash \o <<" ", "(">> \o path \o <<")", "\n">>

SentA == <<"S", "e", "n", "t", "/", "a">>
SentB == <<"S", "e", "n", "t", "/", "b">>
InboxA == <<"I", "/", "a">>
InboxB == <<"I", "/", "b">>
OtherA == <<"J", "/", "a">>

\* A line with a space after the closing parenthesis: it does not match.
BadLine == <<"h", " ", "(", "I", "/", "b", ")", " ", "\n">>

\* The lines an input of the general specification is made of: one hash
\* with files in and out of Sent, a second hash, a path with no component,
\* and a malformed line.
LinePool ==
  { Line(<<"h">>, SentA), Line(<<"h">>, SentB), Line(<<"h">>, InboxA),
    Line(<<"h">>, InboxB), Line(<<"h">>, OtherA), Line(<<"k">>, InboxB),
    Line(<<"h">>, <<>>), BadLine }

\* The lines of the two-hash specification.
GroupLinePool ==
  { Line(<<"h">>, InboxA), Line(<<"h">>, InboxB),
    Line(<<"k">>, InboxA), Line(<<"k">>, InboxB) }

\* args.source
SourceArg == <<"r">>

\* args.move_dir: <<>> is None, <<s>> is the string s. "x" is no directory.
MoveArgs == { <<>>, << <<"m">> >>, << <<"r", "/", "I">> >>, << <<"x">> >> }

\* The files under the source root.
SourceFiles == { FullPath(SourceArg, PurePath(q)) :
                   q \in {SentA, SentB, InboxA, InboxB, OtherA} }

\* The filesystems a run starts from: every file present, one file of the
\* list missing, a file of the same name already in the move directory.
InitialFs ==
  { SourceFiles,
    SourceFiles \ {FullPath(SourceArg, PurePath(InboxB))},
    SourceFiles \cup {PurePath(<<"m", "/", "b">>)} }

SeqsUpTo(S, n) == UNION {[1..k -> S] : k \in 0..n}

\* ------------------------------------------------------------------ state

VARIABLES
  input,      \* the lines of args.file
  dry_run,    \* args.dry_run
  move_arg,   \* args.move_dir
  fs,         \* the regular files that exist
  fs0,        \* the regular files that existed when the program started
  pc,         \* main | parse | groups | validate | dispose | done
  line_num,   \* the line the parsing loop is at
  files,      \* the dict hash -> list of paths, in insertion order
  gi,         \* the item of files the second loop is at
  di,         \* the element of drop the validation or disposal loop is at
  log,        \* the records handed to LOG
  status      \* how the program ended

vars == <<input, dry_run, move_arg, fs, fs0, pc, line_num, files, gi, di, log, status>>

\* move_dir of run(): None or PurePath(args.move_dir)
move_dir == IF move_arg = <<>> THEN <<>> ELSE <<PurePath(move_arg[1])>>

LogRec(level, msg, hash, num, args) ==
  [level |-> level, msg |-> msg, hash |-> hash, num |-> num, args |-> args]

\* sys.exit(main()): the process exit code.
ExitCode(s) ==
  CASE s = "Success" -> 0
    [] s = "Invalid-Configuration" -> 2
    [] s = "Input-Format-Error" -> 3
    [] s = "Invalid-Drop-Path" -> 4
    [] OTHER -> 1

InitWith(pool, n) ==
  /\ input \in SeqsUpTo(pool, n)
  /\ dry_run \in BOOLEAN
  /\ move_arg \in MoveArgs
  /\ fs \in InitialFs
  /\ fs0 = fs
  /\ pc = "main"
  /\ line_num = 1
  /\ files = <<>>
  /\ gi = 1
  /\ di = 1
  /\ log = <<>>
  /\ status = "running"

Init == InitWith(LinePool, MaxLines)

InitGroups == InitWith(GroupLinePool, MaxGroupLines)

\* ------------------------------------------------------------------ main()

\* The loop over the lines starts, or is over at once on an empty input.
AfterParse(n) == IF n > Len(input) THEN "groups" ELSE "parse"

Main ==
  /\ pc = "main"
  /\ IF move_arg # <<>> /\ ~isdir(move_dir[1])
     THEN /\ log' = Append(log, LogRec("error", "Invalid move directory", <<>>, 0,
                                       <<Str(move_dir[1])>>))
          /\ status' = "Invalid-Configuration"
          /\ pc' = "done"
     ELSE /\ pc' = AfterParse(1)
          /\ UNCHANGED <<log, status>>
  /\ UNCHANGED <<input, dry_run, move_arg, fs, fs0, line_num, files, gi, di>>

\* ------------------------------------------------------------------ run()

\* files[hash].append(path) on a defaultdict(list): a new key goes last.
DictAppend(d, hash, path) ==
  IF \E i \in 1..Len(d) : d[i].hash = hash
  THEN [i \in 1..Len(d) |->
          IF d[i].hash = hash
          THEN [hash |-> hash, paths |-> Append(d[i].paths, path)]
          ELSE d[i]]
  ELSE Append(d, [hash |-> hash, paths |-> <<path>>])

ParseLine ==
  /\ pc = "parse"
  /\ line_num <= Len(input)
  /\ LET line == input[line_num]
     IN IF ~re_match(line)
        THEN /\ log' = Append(log, LogRec("error", "Invalid input line", <<>>,
                                          line_num, <<line>>))
             /\ status' = "Input-Format-Error"
             /\ pc' = "done"
             /\ UNCHANGED <<files, line_num>>
        ELSE /\ files' = DictAppend(files, group_hash(line), PurePath(group_path(line)))
             /\ line_num' = line_num + 1
             /\ pc' = AfterParse(line_num + 1)
             /\ UNCHANGED <<log, status>>
  /\ UNCHANGED <<input, dry_run, move_arg, fs, fs0, gi, di>>

\* len(paths) == 1: continue
SkipGroup ==
  /\ pc = "groups"
  /\ gi <= Len(files)
  /\ Len(files[gi].paths) = 1
  /\ gi' = gi + 1
  /\ UNCHANGED <<input, dry_run, move_arg, fs, fs0, pc, line_num, files, di, log, status>>

keep_msg == IF dry_run THEN "would keep (dry run)" ELSE "keeping"

drop_msg == IF dry_run THEN "would drop (dry run)" ELSE "dropping"

Level(w) == IF w THEN "warning" ELSE "info"

\* [p.as_posix() for p in drop]
RECURSIVE PosixNames(_)
PosixNames(ps) ==
  IF ps = <<>> THEN <<>> ELSE <<as_posix(ps[1])>> \o PosixNames(Tail(ps))

\* The two sorts, the announcement of the decision.
DecideGroup ==
  /\ pc = "groups"
  /\ gi <= Len(files)
  /\ Len(files[gi].paths) # 1
  /\ LET byName == SortByName(files[gi].paths)
     IN IF SentKeyRaises(byName)
        THEN /\ files' = [files EXCEPT ![gi].paths = byName]
             /\ status' = "IndexError"
             /\ pc' = "done"
             /\ UNCHANGED <<di, log>>
        ELSE LET paths == SortBySent(byName)
                 drop_names == PosixNames(drop(paths))
                 lvl == Level(warn(paths))
             IN /\ files' = [files EXCEPT ![gi].paths = paths]
                /\ log' = log \o
                     << LogRec(lvl, keep_msg, files[gi].hash, 0, <<Str(keep(paths))>>),
                        LogRec(lvl, drop_msg, files[gi].hash, 0, drop_names) >>
                /\ pc' = "validate"
                /\ di' = 1
                /\ UNCHANGED status
  /\ UNCHANGED <<input, dry_run, move_arg, fs, fs0, line_num, gi>>

\* The disposal loop even on a dry run.
AlwaysDispose(dry) == "dispose"

\* Where the loop body goes once every drop path is valid: continue on a
\* dry run, the disposal loop otherwise.
AfterValidation(dry) == IF dry THEN "groups" ELSE "dispose"

\* A check that accepts every path.
IsFileAlways(fsys, p) == TRUE

\* The validation loop's test of one drop path.
ValidPath(fsys, p) == isfile(fsys, p)

ValidateDrop ==
  /\ pc = "validate"
  /\ LET paths == files[gi].paths
         full_path == FullPath(SourceArg, drop(paths)[di])
     IN IF ~ValidPath(fs, full_path)
        THEN /\ log' = Append(log, LogRec("error", "Invalid file path", <<>>, 0,
                                          <<Str(full_path)>>))
             /\ status' = "Invalid-Drop-Path"
             /\ pc' = "done"
             /\ UNCHANGED <<gi, di>>
        ELSE IF di < Len(drop(paths))
        THEN /\ di' = di + 1
             /\ UNCHANGED <<pc, gi, log, status>>
        ELSE /\ di' = 1
             /\ pc' = AfterValidation(dry_run)
             /\ gi' = IF AfterValidation(dry_run) = "groups" THEN gi + 1 ELSE gi
             /\ UNCHANGED <<log, status>>
  /\ UNCHANGED <<input, dry_run, move_arg, fs, fs0, line_num, files>>

DisposeDrop ==
  /\ pc = "dispose"
  /\ LET paths == files[gi].paths
         drop_path == drop(paths)[di]
         full_path == FullPath(SourceArg, drop_path)
         last == di = Len(drop(paths))
     IN IF move_dir = <<>>
        THEN /\ log' = Append(log, LogRec("info", "Removing", <<>>, 0, <<Str(full_path)>>))
             /\ di' = IF last THEN 1 ELSE di + 1
             /\ gi' = IF last THEN gi + 1 ELSE gi
             /\ pc' = IF last THEN "groups" ELSE "dispose"
             /\ UNCHANGED <<fs, status>>
        ELSE LET move_path == MovePath(move_dir[1], drop_path)
                 r == rename(fs, full_path, move_path)
             IN /\ log' = Append(log, LogRec("info", "Moving", <<>>, 0,
                                             <<Str(full_path), Str(move_path)>>))
                /\ fs' = r.fs
                /\ IF r.exc # ""
                   THEN /\ status' = r.exc
                        /\ pc' = "done"
                        /\ UNCHANGED <<gi, di>>
                   ELSE /\ di' = IF last THEN 1 ELSE di + 1
                        /\ gi' = IF last THEN gi + 1 ELSE gi
                        /\ pc' = IF last THEN "groups" ELSE "dispose"
                        /\ UNCHANGED status
  /\ UNCHANGED <<input, dry_run, move_arg, fs0, line_num, files>>

\* The loop over files.items() is over: run() returns None, the exit code is 0.
Finish ==
  /\ pc = "groups"
  /\ gi > Len(files)
  /\ status' = "Success"
  /\ pc' = "done"
  /\ UNCHANGED <<input, dry_run, move_arg, fs, fs0, line_num, files, gi, di, log>>

Next ==
  \/ Main
  \/ ParseLine
  \/ SkipGroup
  \/ DecideGroup
  \/ ValidateDrop
  \/ DisposeDrop
  \/ Finish

Spec == Init /\ [][Next]_vars

SpecGroups == InitGroups /\ [][Next]_vars

\* ------------------------------------------------------------------ claims

\* Group g has been decided: its list is sorted and its keeper announced.
Decided(g) ==
  /\ g \in 1..Len(files)
  /\ Len(files[g].paths) >= 2
  /\ \/ g < gi
     \/ g = gi /\ pc \in {"validate", "dispose"}
     \/ g = gi /\ pc = "done"
          /\ status \in {"Invalid-Drop-Path", "FileNotFoundError", "IsADirectoryError"}

DecidedGroups == {g \in 1..Len(files) : Decided(g)}

DropSet(g) == {drop(files[g].paths)[i] : i \in 1..Len(drop(files[g].paths))}

\* The paths the input gives for a hash, in input order.
RECURSIVE InputPaths(_, _)
InputPaths(lines, hash) ==
  IF lines = <<>> THEN <<>>
  ELSE (IF group_hash(lines[1]) = hash
        THEN <<PurePath(group_path(lines[1]))>> ELSE <<>>)
       \o InputPaths(Tail(lines), hash)

StrLess(a, b) == LexLess(Codes(a), Codes(b))

\* C1: in every decided group with a member in Sent, the members in Sent come
\* before all others, so the keeper is in Sent and every member outside Sent is
\* dropped.
C1_SentFirst ==
  \A g \in DecidedGroups :
    LET s == files[g].paths
    IN (\E i \in 1..Len(s) : InSent(s[i])) =>
         /\ InSent(keep(s))
         /\ \A i, j \in 1..Len(s) : (i < j /\ InSent(s[j])) => InSent(s[i])

\* C2: after a successful run that is no dry run and has no move directory, no
\* drop candidate exists any more and no file has been created.
C2_DeleteRemoves ==
  (pc = "done" /\ status = "Success" /\ ~dry_run /\ move_arg = <<>>) =>
    /\ \A g \in DecidedGroups : \A d \in DropSet(g) : ~isfile(fs, FullPath(SourceArg, d))
    /\ fs \subseteq fs0

\* The log holds the decision of group g, in the dry-run wording.
AnnouncedDry(g) ==
  \E i \in 1..(Len(log) - 1) :
    /\ log[i].msg = "would keep (dry run)"
    /\ log[i].hash = files[g].hash
    /\ log[i].args = <<as_posix(keep(files[g].paths))>>
    /\ log[i+1].msg = "would drop (dry run)"
    /\ log[i+1].hash = files[g].hash
    /\ log[i+1].args = PosixNames(drop(files[g].paths))

\* C3: on a dry run the filesystem is at every moment the one the program
\* started with, however the run ends, and every decided group is announced.
C3_DryRunFrame ==
  dry_run => (fs = fs0 /\ \A g \in DecidedGroups : AnnouncedDry(g))

C3_Witness ==
  /\ dry_run /\ pc = "done" /\ status = "Success"
  /\ move_arg # <<>>
  /\ DecidedGroups # {}

\* C5 as stated: after a successful run with a move directory, no drop
\* candidate is left at its original path and each has a file at
\* move directory / base name.
C5_MovedAway ==
  (pc = "done" /\ status = "Success" /\ ~dry_run /\ move_arg # <<>>) =>
    \A g \in DecidedGroups : \A d \in DropSet(g) :
      /\ ~isfile(fs, FullPath(SourceArg, d))
      /\ isfile(fs, MovePath(move_dir[1], d))

\* C5 amended: the original path is gone unless it is the destination itself.
C5_MovedUnlessInPlace ==
  (pc = "done" /\ status = "Success" /\ ~dry_run /\ move_arg # <<>>) =>
    \A g \in DecidedGroups : \A d \in DropSet(g) :
      /\ isfile(fs, MovePath(move_dir[1], d))
      /\ FullPath(SourceArg, d) # MovePath(move_dir[1], d)
           => ~isfile(fs, FullPath(SourceArg, d))

C5_Witness ==
  /\ pc = "done" /\ status = "Success" /\ ~dry_run /\ move_arg # <<>>
  /\ \E g \in DecidedGroups : \E d \in DropSet(g) :
       /\ FullPath(SourceArg, d) # MovePath(move_dir[1], d)
       /\ FullPath(SourceArg, d) \in fs0
       /\ MovePath(move_dir[1], d) \notin fs0

\* C9: no step removes the file at the keeper path of a decided group.
C9_KeeperStays ==
  [][\A g \in DecidedGroups :
       isfile(fs, FullPath(SourceArg, keep(files[g].paths)))
         => isfile(fs', FullPath(SourceArg, keep(files[g].paths)))]_vars

\* C10: every disposal step finds its source file present, and no run ends in
\* an exception of the disposal.
C10_DisposalFindsFile ==
  /\ pc = "dispose" =>
       isfile(fs, FullPath(SourceArg, drop(files[gi].paths)[di]))
  /\ status \notin {"FileNotFoundError", "IsADirectoryError"}

\* The grammar of a line, <hash> (<path>): one or more word characters, a
\* space, the path in parentheses, the closing one ending the line or standing
\* before its final newline.
Grammar(line) ==
  LET n == Len(line)
      e == IF n > 0 /\ line[n] = "\n" THEN n - 1 ELSE n
  IN /\ e >= 1
     /\ line[e] = ")"
     /\ \E h \in 1..(e - 3) :
          /\ \A i \in 1..h : line[i] \in WordChars
          /\ line[h+1] = " "
          /\ line[h+2] = "("
          /\ \A i \in (h+3)..(e-1) : line[i] # "\n"

BadLines == {i \in 1..Len(input) : ~Grammar(input[i])}

Least(S) == CHOOSE i \in S : \A j \in S : i <= j

MoveDirValid == move_arg = <<>> \/ isdir(move_dir[1])

\* C6: when some line is malformed, run() ends with Input-Format-Error (3)
\* naming the first such line; the second loop is never entered, nothing but
\* that error is logged and the filesystem stays as it was.
C6_ParseFailure ==
  LET bad == BadLines
  IN bad # {} =>
       /\ fs = fs0
       /\ pc \in {"main", "parse", "done"}
       /\ line_num <= Least(bad)
       /\ \A i \in 1..Len(log) : log[i].level = "error"
       /\ (pc = "done" /\ MoveDirValid) =>
            /\ status = "Input-Format-Error"
            /\ ExitCode(status) = 3
            /\ log = << LogRec("error", "Invalid input line", <<>>, Least(bad),
                               <<input[Least(bad)]>>) >>

C6_Witness ==
  /\ pc = "done" /\ status = "Input-Format-Error" /\ ~dry_run
  /\ Len(input) = 3 /\ Least(BadLines) = 3
  /\ group_hash(input[1]) = group_hash(input[2])

\* The index of the first line with the given hash.
FirstIndex(hash) ==
  CHOOSE i \in 1..Len(input) :
    /\ group_hash(input[i]) = hash
    /\ \A j \in 1..(i-1) : group_hash(input[j]) # hash

\* The number of drop candidates of the groups 1..g.
RECURSIVE DropCount(_)
DropCount(g) ==
  IF g = 0 THEN 0
  ELSE DropCount(g - 1)
       + (IF Len(files[g].paths) >= 2 THEN Len(files[g].paths) - 1 ELSE 0)

IsDisposal(r) == r.msg \in {"Removing", "Moving"}

Disposals == SelectSeq(log, IsDisposal)

CurrentDrop == FullPath(SourceArg, drop(files[gi].paths)[di])

\* C4: the groups are taken in first-seen hash order; a validation step on a
\* path that is no existing file ends the run with Invalid-Drop-Path (4)
\* naming that path and changes no file; the disposals logged are then those of
\* the groups before the failing one, and their effect is still there.
C4_ValidationFailure ==
  /\ [](\A a, b \in 1..Len(files) :
          a < b => FirstIndex(files[a].hash) < FirstIndex(files[b].hash))
  /\ [][gi' \in {gi, gi + 1}]_vars
  /\ [][(pc = "validate" /\ ~isfile(fs, CurrentDrop))
          => (status' = "Invalid-Drop-Path" /\ pc' = "done" /\ fs' = fs)]_vars
  /\ [](status = "Invalid-Drop-Path" =>
          /\ ExitCode(status) = 4
          /\ pc = "done"
          /\ Decided(gi)
          /\ ~isfile(fs, CurrentDrop)
          /\ log[Len(log)] = LogRec("error", "Invalid file path", <<>>, 0,
                                    <<as_posix(CurrentDrop)>>)
          /\ Len(Disposals) = (IF dry_run THEN 0 ELSE DropCount(gi - 1))
          /\ (~dry_run /\ move_arg # <<>>) =>
               \A g \in DecidedGroups : \A d \in DropSet(g) :
                 g < gi => isfile(fs, MovePath(move_dir[1], d)))

C4_Witness ==
  /\ status = "Invalid-Drop-Path"
  /\ gi = 2
  /\ ~dry_run
  /\ move_arg # <<>>
  /\ fs # fs0
  /\ Len(Disposals) = 1

\* The first member of o with the smallest base name.
FirstMin(o) ==
  CHOOSE i \in 1..Len(o) :
    /\ \A j \in 1..Len(o) : ~StrLess(Name(o[j]), Name(o[i]))
    /\ \A j \in 1..(i-1) : Name(o[j]) # Name(o[i])

NoneInSent(s) == \A i \in 1..Len(s) : ~InSent(s[i])

\* C7: in a decided group, members of the same Sent classification are in
\* ascending order of base name, those of equal base name in input order; with
\* no member in Sent the keeper is the first member of the input with the
\* smallest base name.
C7_NameOrder ==
  \A g \in DecidedGroups :
    LET s == files[g].paths
        o == InputPaths(input, files[g].hash)
    IN /\ Len(s) = Len(o)
       /\ \A i, j \in 1..Len(s) :
            (i < j /\ InSent(s[i]) = InSent(s[j]))
               => ~StrLess(Name(s[j]), Name(s[i]))
       /\ \A k \in 1..Len(s) :
            LET SameKey(x) == InSent(x) = InSent(s[k]) /\ Name(x) = Name(s[k])
            IN SelectSeq(s, SameKey) = SelectSeq(o, SameKey)
       /\ NoneInSent(s) => keep(s) = o[FirstMin(o)]

C7_Witness ==
  \E g \in DecidedGroups :
    LET s == files[g].paths
        o == InputPaths(input, files[g].hash)
    IN /\ NoneInSent(s)
       /\ Len(s) = 3
       /\ keep(s) # o[1]
       /\ \E i, j \in 1..Len(s) : s[i] # s[j] /\ Name(s[i]) = Name(s[j])

RECURSIVE FullNames(_)
FullNames(ps) ==
  IF ps = <<>> THEN <<>>
  ELSE <<as_posix(FullPath(SourceArg, ps[1]))>> \o FullNames(Tail(ps))

\* The number of disposal steps taken in the group the loop is at.
DisposedHere ==
  IF pc = "dispose" THEN di - 1
  ELSE IF status \in {"FileNotFoundError", "IsADirectoryError"} THEN di
  ELSE 0

\* The source paths of the disposals of the groups 1..g, in order.
RECURSIVE DisposalsUpTo(_)
DisposalsUpTo(g) ==
  IF g = 0 THEN <<>>
  ELSE DisposalsUpTo(g - 1) \o
       (IF Len(files[g].paths) < 2 THEN <<>>
        ELSE IF g < gi THEN FullNames(drop(files[g].paths))
        ELSE IF g = gi THEN SubSeq(FullNames(drop(files[g].paths)), 1, DisposedHere)
        ELSE <<>>)

RECURSIVE FirstArgs(_)
FirstArgs(recs) ==
  IF recs = <<>> THEN <<>> ELSE <<recs[1].args[1]>> \o FirstArgs(Tail(recs))

\* C8: the decision of a group is logged as a warning exactly when its keeper
\* is in Sent and some dropped member is not, as information otherwise; the
\* disposals are those of the drop lists whatever the severity.
C8_Severity ==
  /\ \A g \in DecidedGroups :
       LET s == files[g].paths
       IN \E i \in 1..(Len(log) - 1) :
            /\ log[i].hash = files[g].hash
            /\ log[i].msg = keep_msg
            /\ log[i].args = <<as_posix(keep(s))>>
            /\ log[i+1].hash = files[g].hash
            /\ log[i+1].msg = drop_msg
            /\ log[i+1].level = log[i].level
            /\ log[i].level \in {"warning", "info"}
            /\ log[i].level = "warning"
                 <=> (InSent(keep(s)) /\ \E d \in DropSet(g) : ~InSent(d))
  /\ FirstArgs(Disposals) = (IF dry_run THEN <<>> ELSE DisposalsUpTo(Len(files)))
  /\ \A i \in 1..Len(log) : IsDisposal(log[i]) => log[i].level = "info"

C8_Witness ==
  \E g \in DecidedGroups :
    /\ InSent(keep(files[g].paths))
    /\ ~dry_run
    /\ g < gi
    /\ \E i \in 1..Len(log) : log[i].hash = files[g].hash /\ log[i].level = "info"

====
